---- MODULE Spec2Model ----
(***************************************************************************)
(* SLA deadline monitor and notification derivation of the FinOps          *)
(* dashboard.                                                              *)
(*                                                                         *)
(* Two evaluator paths exist in the sources:                               *)
(*   - the SQL function check_subtask_sla_notifications(), run by          *)
(*     GET /, POST /auto-sync and the enable-auto-sync interval callback   *)
(*     (server/routes/notifications-production.ts);                        *)
(*   - FinOpsAlertService.checkSLAAlerts (unnamed/part_000).               *)
(*                                                                         *)
(* Time is counted in ticks; one minute is Sub ticks.                      *)
(***************************************************************************)
EXTENDS Integers, Sequences, FiniteSets, TLC

\* ------------------------------------------------------------------------
\* Bounds of the model
\* ------------------------------------------------------------------------

\* ticks per minute (resolution of the clock)
Sub == 2

\* minutes between two instants at which the clock is observed
Step == 10

\* instant (minutes) at which the evaluator is brought up
BootTime == 30

\* last instant (minutes) of a run
MaxTime == 90

\* most records the activity log holds in a run
MaxLog == 3

\* most records the alert table holds in a run
MaxAlerts == 2

\* most read/archive status rows written in a run
MaxStatus == 1

\* most calls that throw in a run
MaxFaults == 1

\* minutes written in the text of a classified record
TextMinutes == 1

\* most minutes written in the text of a record read live
LiveMinutes == 16

\* most names in a manager column
MaxManagers == 2

\* most days the log is kept for
MaxDays == 2

\* ------------------------------------------------------------------------
\* Program constants
\* ------------------------------------------------------------------------

\* SQL NULL of a TIME / TIMESTAMP column
NULL == -1

\* warning window of the SQL function, minutes
WarningWindow == 15

\* delay after start_time before the SQL function reports overdue, minutes
OverdueDelay == 15

\* lookback of the SQL function's duplicate check, minutes
Lookback == 60

\* warning window of the alert service, minutes
ServiceWarningWindow == 15

\* lookback of the alert service's warning duplicate check, minutes
ServiceWarningLookback == 60

\* lookback of the alert service's overdue duplicate check, minutes
ServiceOverdueLookback == 30

\* INTERVAL '24 hours' of POST /test/create-pending-check, in minutes
PendingLookback == 1440

\* the subtask of task 16 the pending record is written for
CheckSubtask == 29

Min(m) == m * Sub

\* floor(x / d) for d > 0, as Math.floor does
Floor(x, d) == IF x >= 0 THEN x \div d ELSE -((-x + d - 1) \div d)

\* ROUND(x / d): nearest integer, ties away from zero
Round(x, d) == IF x >= 0 THEN (2 * x + d) \div (2 * d)
                         ELSE -((2 * (-x) + d) \div (2 * d))

Abs(x) == IF x < 0 THEN -x ELSE x

\* ------------------------------------------------------------------------
\* Schedulable units (finops_subtasks joined with finops_tasks)
\* ------------------------------------------------------------------------

UnitOrder == <<1, 2>>
UnitIds == {UnitOrder[i] : i \in DOMAIN UnitOrder}

\* scheduled start of a unit that is not yet in its warning window when the
\* evaluator comes up, and of one that is already overdue then (minutes)
StartTime == BootTime + WarningWindow
ColdStartTime == BootTime - OverdueDelay - Step

\* SLA budgets (sla_hours * 60 + sla_minutes), in minutes
SlaBudget == ServiceWarningWindow + Step
ShortBudget == Step

Unit(st, an, s, ia, sa, sla) ==
  [start_time |-> st, auto_notify |-> an, status |-> s, is_active |-> ia,
   started_at |-> sa, sla |-> sla]

Scheduled == Unit(Min(StartTime), TRUE, "pending", TRUE, NULL, Min(ShortBudget))
Started   == Unit(Min(StartTime), TRUE, "in_progress", TRUE, Min(BootTime), Min(SlaBudget))
Unplanned == Unit(NULL, TRUE, "in_progress", TRUE, Min(BootTime), Min(SlaBudget))
Muted     == Unit(Min(StartTime), FALSE, "in_progress", TRUE, Min(BootTime), Min(SlaBudget))
Resolved  == Unit(Min(StartTime), TRUE, "completed", TRUE, Min(BootTime), Min(SlaBudget))
Inactive  == Unit(Min(StartTime), TRUE, "pending", FALSE, Min(BootTime), Min(SlaBudget))
Cold      == Unit(Min(ColdStartTime), TRUE, "in_progress", TRUE, 0, Min(ShortBudget))

\* the units a run may start with: scheduled and not started; scheduled and
\* started when the evaluator comes up; started without a scheduled start
\* time; notifications switched off; resolved; of a task that is not active;
\* already overdue when the evaluator comes up
UnitProfiles ==
  {Scheduled, Started, Unplanned, Muted, Resolved, Inactive, Cold}

\* the first unit is any of them, the others are scheduled or resolved
InitialUnits ==
  {st \in [UnitIds -> UnitProfiles] :
     \A u \in UnitIds \ {UnitOrder[1]} : st[u] \in {Scheduled, Resolved}}

VARIABLES
  now,             \* the clock (ticks)
  subtasks,        \* finops_subtasks, by unit id
  activity_log,    \* finops_activity_log, append only; id = position
  alerts,          \* finops_alerts
  read_status,     \* finops_notification_read_status (set of log ids)
  archived_status, \* finops_notification_archived_status (set of log ids)
  inflight,        \* rows an evaluator pass has fetched and not yet inserted
  syncInterval,    \* the handle of the interval timer the module holds, or NULL
  timers,          \* the interval timers the event loop has scheduled (handles)
  ran,             \* the evaluator paths that completed a pass at this instant
  outbox,          \* the mails the transporter accepted
  faulted,         \* the calls that threw: the unit (0: none) and the instant
  event,           \* an activity log record handed to the classification
  shown,           \* what the listing and the client make of it
  task,            \* the finops_tasks row of the units
  recipientList,   \* the recipient list the last alert was built with
  response,        \* the last answer of DELETE /:id: the id and the status
  readResponse,    \* the last answer of PUT /:id/read: the id and the status
  answer           \* what a route answered at this instant

vars == <<now, subtasks, activity_log, alerts, read_status, archived_status,
          inflight, syncInterval, ran, outbox, faulted, event, shown,
          task, recipientList, response, answer, timers, readResponse>>

\* a manager column: no value, or JSON text, held as the names it lists
Column(names) == [null |-> FALSE, names |-> names]

NullColumn == [null |-> TRUE, names |-> <<>>]

\* the task the units belong to
SeedTask ==
  [assigned_to |-> "John Durairaj",
   reporting_managers |-> Column(<<"Albert Kumar", "Hari Prasad">>),
   escalation_managers |-> Column(<<"Sarah Wilson", "Mike Johnson">>)]

\* no route has answered at this instant
NoAnswer ==
  [route |-> "none", status |-> 0, notifications |-> <<>>, total |-> 0,
   unread_count |-> 0, has_more |-> FALSE, notifications_created |-> 0,
   limit |-> 0, offset |-> 0]

\* the ids of a list of notifications
Ids(from, count) == [k \in 1..count |-> from + k]

\* the answer that names only the events of the pass that come first
AutoSyncAnswerFirstOnly(log, rows) ==
  [NoAnswer EXCEPT !.route = "auto_sync", !.status = 200,
                   !.notifications = Ids(Len(log), IF rows = <<>> THEN 0 ELSE 1),
                   !.notifications_created = Len(rows)]

\* POST /auto-sync answers with createdNotifications: the rows its own
\* INSERTs returned
AutoSyncAnswer(log, rows) ==
  [NoAnswer EXCEPT !.route = "auto_sync", !.status = 200,
                   !.notifications = Ids(Len(log), Len(rows)),
                   !.notifications_created = Len(rows)]

\* the catch block of a route: 500
FailedAnswer(p) == [NoAnswer EXCEPT !.route = p, !.status = 500]

\* DELETE /:id has not been called
NoResponse == [id |-> 0, status |-> 0]

\* no alert has built a list
NoRecipients == [alert_type |-> "", list |-> <<>>]

\* the three callers of check_subtask_sla_notifications()
Passes == {"get", "auto_sync", "timer"}

\* ------------------------------------------------------------------------
\* check_subtask_sla_notifications()
\* ------------------------------------------------------------------------

Eligible(st) ==
  /\ st.start_time # NULL
  /\ st.auto_notify
  /\ st.status \in {"pending", "in_progress"}
  /\ st.is_active

\* the duplicate check with a lookback of one minute
LoggedRecentlyShort(log, u, action, t) ==
  \E i \in 1..Len(log) :
    /\ log[i].subtask_id = u
    /\ log[i].action = action
    /\ log[i].timestamp > t - Min(1)

\* NOT EXISTS sub-select of both queries: an activity log row of this unit
\* and action newer than the lookback
LoggedRecently(log, u, action, t) ==
  \E i \in 1..Len(log) :
    /\ log[i].subtask_id = u
    /\ log[i].action = action
    /\ log[i].timestamp > t - Min(Lookback)

WarningDue(st, t) ==
  /\ Eligible(st)
  /\ st.start_time > t
  /\ st.start_time <= t + Min(WarningWindow)

\* the overdue test with the boundary instant included
OverdueDueInclusive(st, t) ==
  /\ Eligible(st)
  /\ st.start_time <= t - Min(OverdueDelay)

OverdueDue(st, t) ==
  /\ Eligible(st)
  /\ st.start_time < t - Min(OverdueDelay)

WarningRow(st, u, t) ==
  [notification_type |-> "sla_warning", subtask_id |-> u,
   time_diff |-> st.start_time - t,
   n |-> Round(st.start_time - t, Sub)]

OverdueRow(st, u, t) ==
  [notification_type |-> "sla_overdue", subtask_id |-> u,
   time_diff |-> t - st.start_time,
   n |-> Round(t - st.start_time, Sub)]

MapRows(us, st, t, Row(_, _, _)) ==
  [i \in 1..Len(us) |-> Row(st[us[i]], us[i], t)]

check_subtask_sla_notifications(st, log, t) ==
  LET warn == SelectSeq(UnitOrder, LAMBDA u :
                WarningDue(st[u], t) /\ ~LoggedRecently(log, u, "sla_alert", t))
      over == SelectSeq(UnitOrder, LAMBDA u :
                OverdueDue(st[u], t)
                /\ ~LoggedRecently(log, u, "overdue_notification_sent", t))
  IN  MapRows(warn, st, t, WarningRow) \o MapRows(over, st, t, OverdueRow)

\* the activity log record one row becomes (the bullet of the message
\* text is written * here)
LogRecord(row, t) ==
  [action |-> IF row.notification_type = "sla_warning"
              THEN "sla_alert" ELSE "overdue_notification_sent",
   subtask_id |-> row.subtask_id,
   details |-> IF row.notification_type = "sla_warning"
               THEN "SLA Warning - %s min remaining * need to start"
               ELSE "Overdue by %s min * %s min ago",
   n |-> row.n,
   timestamp |-> t]

\* ------------------------------------------------------------------------
\* Evaluator passes over the SQL function: the query is one store call, the
\* loop of INSERTs that follows is made of further store calls, so another
\* pass can run between the two
\* ------------------------------------------------------------------------

Rows(p) == inflight[p]

InFlight == {p \in Passes : inflight[p] # <<>>}

RECURSIVE InsertRows(_, _, _)
InsertRows(log, rows, t) ==
  IF rows = <<>> THEN log
  ELSE InsertRows(Append(log, LogRecord(Head(rows), t)), Tail(rows), t)

\* rows fetched by passes and not yet inserted
RECURSIVE PendingRows(_)
PendingRows(ps) ==
  IF ps = {} THEN 0
  ELSE LET p == CHOOSE q \in ps : TRUE
       IN  Len(inflight[p]) + PendingRows(ps \ {p})

\* a timer whose callback goes on firing once it has been cleared
ArmedForEver(p) == TRUE

\* the callback of the interval timer fires only while a timer is
\* scheduled; the routes run when they are called
Armed(p) == p = "timer" => timers # {}

PassQuery(p) ==
  /\ inflight[p] = <<>>
  /\ Armed(p)
  /\ LET rows == check_subtask_sla_notifications(subtasks, activity_log, now)
     IN  /\ Len(activity_log) + PendingRows(Passes) + Len(rows) <= MaxLog
         /\ inflight' = [inflight EXCEPT ![p] = rows]
         /\ ran' = IF rows = <<>> THEN ran \cup {"sql"} ELSE ran
         /\ answer' = IF p = "auto_sync" /\ rows = <<>>
                       THEN AutoSyncAnswer(activity_log, <<>>) ELSE answer
  /\ UNCHANGED <<now, subtasks, activity_log, alerts, read_status,
                 archived_status, syncInterval,
                 outbox, faulted,
                 event, shown,
                 task, recipientList, response, timers, readResponse>>

PassInsert(p) ==
  /\ inflight[p] # <<>>
  /\ activity_log' = InsertRows(activity_log, inflight[p], now)
  /\ inflight' = [inflight EXCEPT ![p] = <<>>]
  /\ ran' = ran \cup {"sql"}
  /\ answer' = IF p = "auto_sync"
                THEN AutoSyncAnswer(activity_log, inflight[p]) ELSE answer
  /\ UNCHANGED <<now, subtasks, alerts, read_status, archived_status,
                 syncInterval,
                 outbox, faulted,
                 event, shown,
                 task, recipientList, response, timers, readResponse>>

\* a further call can throw
FaultAllowed ==
  /\ Cardinality(faulted) < MaxFaults
  /\ \A x \in faulted : x.at # now

\* units a call has thrown for at instant t
FaultedAt(t) == {x.unit : x \in {y \in faulted : y.at = t}}

\* the query of a pass throws: the catch block of the caller logs it
PassQueryFails(p) ==
  /\ inflight[p] = <<>>
  /\ Armed(p)
  /\ FaultAllowed
  /\ ran' = ran \cup {"sql_query_failed"}
  /\ faulted' = faulted \cup {[unit |-> 0, at |-> now]}
  /\ answer' = IF p = "auto_sync" THEN FailedAnswer(p) ELSE answer
  /\ UNCHANGED <<now, subtasks, activity_log, alerts, read_status,
                 archived_status, inflight, syncInterval, outbox,
                 event, shown,
                 task, recipientList, response, timers, readResponse>>

\* the k-th INSERT of a pass throws: the rows before it are in the log, the
\* loop is left through the catch block of the caller
PassInsertFails(p, k) ==
  /\ k \in 1..Len(inflight[p])
  /\ FaultAllowed
  /\ activity_log' = InsertRows(activity_log, SubSeq(inflight[p], 1, k - 1), now)
  /\ inflight' = [inflight EXCEPT ![p] = <<>>]
  /\ faulted' = faulted \cup {[unit |-> inflight[p][k].subtask_id, at |-> now]}
  /\ ran' = ran \cup {"sql_insert_failed"}
  /\ answer' = IF p = "auto_sync" THEN FailedAnswer(p) ELSE answer
  /\ UNCHANGED <<now, subtasks, alerts, read_status, archived_status,
                 syncInterval, outbox,
                 event, shown,
                 task, recipientList, response, timers, readResponse>>

\* ------------------------------------------------------------------------
\* enable-auto-sync / disable-auto-sync
\* ------------------------------------------------------------------------

\* setInterval: the handle of the new timer, the first slot of the timer
\* list of the event loop that is free
setInterval(ts) == CHOOSE h \in 1..(Cardinality(ts) + 1) : h \notin ts

\* a clearInterval that leaves the timer scheduled
clearIntervalKeeping(ts, h) == ts

\* clearInterval: the timer of the handle is no longer scheduled
clearInterval(ts, h) == ts \ {h}

EnableAutoSync ==
  LET cleared == IF syncInterval # NULL
                 THEN clearInterval(timers, syncInterval) ELSE timers
  IN  /\ syncInterval' = setInterval(cleared)
      /\ timers' = cleared \cup {setInterval(cleared)}
      /\ UNCHANGED <<now, subtasks, activity_log, alerts, read_status,
                     archived_status, inflight, ran,
                     outbox, faulted,
                     event, shown,
                     task, recipientList, response, answer, readResponse>>

DisableAutoSync ==
  /\ IF syncInterval # NULL
     THEN /\ timers' = clearInterval(timers, syncInterval)
          /\ syncInterval' = NULL
     ELSE UNCHANGED <<syncInterval, timers>>
  /\ UNCHANGED <<now, subtasks, activity_log, alerts, read_status,
                 archived_status, inflight, ran,
                 outbox, faulted,
                 event, shown,
                 task, recipientList, response, answer, readResponse>>

\* ------------------------------------------------------------------------
\* FinOpsAlertService
\* ------------------------------------------------------------------------

\* a store call or a delivery that throws during one run of the service:
\* the unit it is made for, the call, and for sendMail the recipients the
\* transporter rejects
NoFault == [unit |-> 0, call |-> "none", who |-> {}]

WarningRecipients == <<"assigned", "reporting">>
OverdueRecipients == <<"assigned", "reporting", "escalation">>

Range(q) == {q[i] : i \in DOMAIN q}

ServiceCalls == {"existingAlert", "logAlert", "update", "logActivity"}

ServiceFaults ==
  {NoFault, [unit |-> 0, call |-> "tasks", who |-> {}]}
    \cup [unit : UnitIds, call : ServiceCalls, who : {{}}]
    \cup [unit : UnitIds, call : {"sendMail"},
          who : {{"assigned"}, Range(OverdueRecipients)}]

Fails(s, u, call) == s.fault.unit = u /\ s.fault.call = call

\* console.error in a catch block
Caught(s, u, t) == [s EXCEPT !.faulted = @ \cup {[unit |-> u, at |-> t]}]

AlertedRecently(al, u, type, t, lookback) ==
  \E i \in 1..Len(al) :
    /\ al[i].subtask_id = u
    /\ al[i].alert_type = type
    /\ al[i].created_at > t - Min(lookback)

logAlert(s, u, type, minutes, t) ==
  IF Fails(s, u, "logAlert") THEN Caught(s, u, t)
  ELSE [s EXCEPT !.alerts = Append(@, [alert_type |-> type, subtask_id |-> u,
                                       minutes_data |-> minutes, created_at |-> t])]

logActivity(s, u, action, details, t) ==
  IF Fails(s, u, "logActivity") THEN Caught(s, u, t)
  ELSE [s EXCEPT !.log = Append(@, [action |-> action, subtask_id |-> u,
                                    details |-> details, n |-> 0, timestamp |-> t])]

\* one sendMail per recipient, each in its own try block
sendEmailAlerts(s, u, type, recipients, t) ==
  LET rejected == IF Fails(s, u, "sendMail") THEN s.fault.who ELSE {}
      accepted == {[subtask_id |-> u, alert_type |-> type, to |-> r, at |-> t] :
                     r \in Range(recipients) \ rejected}
      s1 == [s EXCEPT !.outbox = @ \cup accepted]
  IN  IF Range(recipients) \cap rejected # {} THEN Caught(s1, u, t) ELSE s1

sendSLAWarningAlert(s, u, minutesRemaining, t) ==
  IF Fails(s, u, "existingAlert") THEN Caught(s, u, t)
  ELSE IF AlertedRecently(s.alerts, u, "sla_warning", t, ServiceWarningLookback)
  THEN s
  ELSE logAlert(sendEmailAlerts(s, u, "sla_warning", WarningRecipients, t),
                u, "sla_warning", minutesRemaining, t)

sendSLAOverdueAlert(s, u, minutesOverdue, t) ==
  IF Fails(s, u, "existingAlert") THEN Caught(s, u, t)
  ELSE IF AlertedRecently(s.alerts, u, "sla_overdue", t, ServiceOverdueLookback)
  THEN s
  ELSE logAlert(sendEmailAlerts(s, u, "sla_overdue", OverdueRecipients, t),
                u, "sla_overdue", minutesOverdue, t)

updateSubtaskStatus(s, u, status, t) ==
  IF Fails(s, u, "update") THEN Caught(s, u, t)
  ELSE logActivity([s EXCEPT !.subtasks[u].status = status], u, "status_changed",
                   "Status automatically changed to overdue due to SLA breach", t)

\* a due time that falls back on the scheduled start of a unit not started
dueTimeScheduled(st, t) ==
  (IF st.started_at # NULL THEN st.started_at ELSE st.start_time) + st.sla

\* the due time checkSubtaskSLA computes
dueTime(st, t) ==
  (IF st.started_at # NULL THEN st.started_at ELSE t) + st.sla

minutesRemaining(st, t) == Floor(dueTime(st, t) - t, Sub)

checkSubtaskSLA(s, u, t) ==
  LET mr == minutesRemaining(s.subtasks[u], t)
  IN  IF mr < 0
      THEN updateSubtaskStatus(sendSLAOverdueAlert(s, u, Abs(mr), t), u, "overdue", t)
      ELSE IF mr <= ServiceWarningWindow /\ mr > 0
           THEN sendSLAWarningAlert(s, u, mr, t)
           ELSE s

processTaskAlerts(s, u, t) ==
  IF s.subtasks[u].status \in {"in_progress", "pending"}
  THEN checkSubtaskSLA(s, u, t)
  ELSE s

getActiveTasksWithSubtasks(st) ==
  SelectSeq(UnitOrder, LAMBDA u : st[u].is_active)

RECURSIVE ForEachTask(_, _, _)
ForEachTask(s, us, t) ==
  IF us = <<>> THEN s
  ELSE ForEachTask(processTaskAlerts(s, Head(us), t), Tail(us), t)

\* one run of the service in which the call f throws
checkSLAAlertsWith(f) ==
  LET s0 == [subtasks |-> subtasks, alerts |-> alerts, log |-> activity_log,
             outbox |-> outbox, faulted |-> faulted, fault |-> f]
      s1 == IF f.call = "tasks" THEN s0
            ELSE ForEachTask(s0, getActiveTasksWithSubtasks(subtasks), now)
  IN  /\ f # NoFault => FaultAllowed
      /\ Len(s1.log) + PendingRows(Passes) <= MaxLog
      /\ Len(s1.alerts) <= MaxAlerts
      /\ subtasks' = s1.subtasks
      /\ alerts' = s1.alerts
      /\ activity_log' = s1.log
      /\ outbox' = s1.outbox
      /\ faulted' = IF f.call = "tasks"
                    THEN faulted \cup {[unit |-> 0, at |-> now]}
                    ELSE s1.faulted
      /\ ran' = ran \cup {IF f.call = "tasks" THEN "service_query_failed"
                          ELSE IF s1.faulted # faulted THEN "service_failed"
                          ELSE "service"}
      /\ UNCHANGED <<now, read_status, archived_status, inflight, syncInterval,
                 event, shown,
                 task, recipientList, response, answer, timers, readResponse>>

checkSLAAlerts == checkSLAAlertsWith(NoFault)

\* ------------------------------------------------------------------------
\* PUT /:id/read and DELETE /:id
\* ------------------------------------------------------------------------

\* an upsert that takes the read status away when there is one
upsertToggling(rs, id) == IF id \in rs THEN rs \ {id} ELSE rs \cup {id}

\* INSERT ... ON CONFLICT (activity_log_id) DO UPDATE SET read_at = NOW():
\* activity_log_id is the primary key of the table
upsert(rs, id) == rs \cup {id}

\* PUT /:id/read of an event of the log, read before or not
MarkRead(id) ==
  /\ id \in 1..Len(activity_log)
  /\ \/ id \in read_status
     \/ Cardinality(read_status) + Cardinality(archived_status) < MaxStatus
  /\ read_status' = upsert(read_status, id)
  /\ readResponse' = [id |-> id, status |-> 200]
  /\ UNCHANGED <<now, subtasks, activity_log, alerts, archived_status,
                 inflight, syncInterval, ran,
                 outbox, faulted,
                 event, shown,
                 task, recipientList, response, answer, timers>>

\* PUT /:id/read of an id the log has no event for
MarkReadMissing(id) ==
  /\ id \notin 1..Len(activity_log)
  /\ readResponse' = [id |-> id, status |-> 404]
  /\ UNCHANGED <<now, subtasks, activity_log, alerts, read_status,
                 archived_status, inflight, syncInterval, ran, outbox,
                 faulted, event, shown, task, recipientList, response,
                 answer, timers>>

\* DELETE /:id as a hard delete of the record
ArchiveDeleting(id) ==
  /\ id \in 1..Len(activity_log)
  /\ id \notin archived_status
  /\ Cardinality(read_status) + Cardinality(archived_status) < MaxStatus
  /\ activity_log' = SubSeq(activity_log, 1, id - 1)
                        \o SubSeq(activity_log, id + 1, Len(activity_log))
  /\ response' = [id |-> id, status |-> 204]
  /\ UNCHANGED <<now, subtasks, alerts, read_status, archived_status, inflight,
                 syncInterval, ran, outbox, faulted, event, shown,
                 task, recipientList, answer, timers, readResponse>>

\* DELETE /:id of an event of the log
Archive(id) ==
  /\ id \in 1..Len(activity_log)
  /\ id \notin archived_status
  /\ Cardinality(read_status) + Cardinality(archived_status) < MaxStatus
  /\ archived_status' = archived_status \cup {id}
  /\ response' = [id |-> id, status |-> 204]
  /\ UNCHANGED <<now, subtasks, activity_log, alerts, read_status, inflight,
                 syncInterval, ran, outbox, faulted, event, shown,
                 task, recipientList, answer, timers, readResponse>>

\* DELETE /:id of an id the log has no event for
ArchiveMissing(id) ==
  /\ id \notin 1..Len(activity_log)
  /\ response' = [id |-> id, status |-> 404]
  /\ UNCHANGED <<now, subtasks, activity_log, alerts, read_status,
                 archived_status, inflight, syncInterval, ran, outbox,
                 faulted, event, shown, task, recipientList, answer, timers, readResponse>>

\* ------------------------------------------------------------------------
\* GET /: the listing query
\* ------------------------------------------------------------------------

\* PARTITION BY of ranked_notifications: every sla_alert record is a group
\* of its own, the other records are grouped by action, unit and the first
\* 50 characters of the details (the text with its numbers)
GroupKey(log, i) ==
  IF log[i].action = "sla_alert"
  THEN [action |-> "sla_alert", id |-> i, subtask_id |-> 0, details |-> "", n |-> 0]
  ELSE [action |-> log[i].action, id |-> 0, subtask_id |-> log[i].subtask_id,
        details |-> log[i].details, n |-> log[i].n]

GroupKeys(log) == {GroupKey(log, i) : i \in 1..Len(log)}

\* the records ROW_NUMBER() can number 1 in a group: those with the latest
\* timestamp (the order among equal timestamps is not defined)
Latest(log, g) ==
  {i \in 1..Len(log) :
     /\ GroupKey(log, i) = g
     /\ \A j \in 1..Len(log) :
          GroupKey(log, j) = g => log[j].timestamp <= log[i].timestamp}

\* one choice of the record numbered 1 in every group
Rankings(log) ==
  {f \in [GroupKeys(log) -> 1..Len(log)] :
     \A g \in GroupKeys(log) : f[g] \in Latest(log, g)}

\* the archive filter with the read status table joined in its place
NotArchivedByRead(i) == i \notin read_status

\* fnas.activity_log_id IS NULL
NotArchived(i) == i \notin archived_status

\* the ids of the rows the query returns under a ranking
ListedIds(f) == {i \in {f[g] : g \in DOMAIN f} : NotArchived(i)}

\* the id sets the listing can return in this state
Listings == {ListedIds(f) : f \in Rankings(activity_log)}

\* ------------------------------------------------------------------------
\* Classification of an activity log record: the type and priority CASE
\* expressions of the listing query, and the type and action_required the
\* client derives in transformDbNotifications
\* ------------------------------------------------------------------------

\* action tags the CASE expressions and the client test for, and one they
\* do not know
ActionTags ==
  {"delay_reported", "overdue_notification_sent", "completion_notification_sent",
   "sla_alert", "escalation_required", "status_changed", "task_status_changed",
   "task_created"}

\* substrings looked for in the lower-cased details
Features ==
  {"overdue", "completed", "starting in", "sla warning", "min remaining",
   "pending", "need to start", "pending status"}

\* substrings the client looks for in the details as written
CasedFeatures ==
  {"starting in", "sla warning", "min remaining", "need to start",
   "SLA Warning - "}

\* a details text, by the substrings it contains: has, whatever the case,
\* and cased, in exactly this spelling
DetailTexts ==
  {d \in [has : SUBSET Features, cased : SUBSET CasedFeatures] :
     /\ "pending status" \in d.has => "pending" \in d.has
     /\ \A f \in d.cased \cap Features : f \in d.has
     /\ "SLA Warning - " \in d.cased => "sla warning" \in d.has}

\* a row of the listing: remaining is the number in front of "min remaining"
\* and overdue_by the number of "overdue by N min", NULL where the text has
\* none; tail is the text after "min remaining"; created_at is the
\* timestamp of the event. The records here carry
\* minutes only in an "SLA Warning - N min remaining" text, written either
\* at the read or TextMinutes before it
EventRecords ==
  {e \in [action : ActionTags, details : DetailTexts,
          remaining : {NULL, TextMinutes}, overdue_by : {NULL},
          created_at : {Min(BootTime) - Min(TextMinutes), Min(BootTime)},
          tail : {"", " * need to start"}] :
     /\ e.tail # "" <=> (e.remaining # NULL /\ "need to start" \in e.details.cased)
     /\ e.remaining # NULL
          <=> {"SLA Warning - ", "min remaining"} \subseteq e.details.cased
     /\ e.remaining = NULL => e.created_at = Min(BootTime)}

NoEvent == [action |-> "none", details |-> [has |-> {}, cased |-> {}],
            remaining |-> NULL, overdue_by |-> NULL, created_at |-> NULL,
            tail |-> ""]

NoMessage == [details |-> "", n |-> NULL, ago |-> NULL, tail |-> ""]

Stored == [stage |-> "stored", type |-> "", priority |-> "",
           client_type |-> "", action_required |-> FALSE,
           client_priority |-> "", message |-> NoMessage,
           overdue_minutes |-> NULL, sla_remaining |-> NoMessage,
           escalation_managers |-> <<>>, shows_escalation |-> FALSE]

\* LOWER(details) LIKE '%f%' and details.toLowerCase().includes(f)
Like(e, f) == f \in e.details.has

\* details.includes(f)
Includes(e, f) == f \in e.details.cased

\* the type taken from the action tag alone
ServerTypeByTag(e) ==
  CASE e.action = "delay_reported" -> "task_delayed"
    [] e.action = "overdue_notification_sent" -> "sla_overdue"
    [] e.action = "completion_notification_sent" -> "task_completed"
    [] e.action = "sla_alert" -> "sla_warning"
    [] e.action = "escalation_required" -> "escalation"
    [] OTHER -> "daily_reminder"

ServerType(e) ==
  CASE e.action = "delay_reported" -> "task_delayed"
    [] e.action = "overdue_notification_sent" -> "sla_overdue"
    [] e.action = "completion_notification_sent" -> "task_completed"
    [] e.action = "sla_alert" -> "sla_warning"
    [] e.action = "escalation_required" -> "escalation"
    [] OTHER ->
       IF Like(e, "overdue") THEN "sla_overdue"
       ELSE IF e.action \in {"status_changed", "task_status_changed"}
               /\ Like(e, "overdue") THEN "sla_overdue"
       ELSE IF e.action \in {"status_changed", "task_status_changed"}
               /\ Like(e, "completed") THEN "task_completed"
       ELSE IF Like(e, "starting in") \/ Like(e, "sla warning") THEN "sla_warning"
       ELSE IF Like(e, "min remaining") THEN "sla_warning"
       ELSE IF Like(e, "pending") /\ Like(e, "need to start") THEN "task_pending"
       ELSE IF Like(e, "pending status") THEN "task_pending"
       ELSE "daily_reminder"

\* the priority CASE with the overdue tag left out of its first branch
ServerPriorityByText(e) ==
  IF e.action = "delay_reported" \/ Like(e, "overdue") THEN "critical"
  ELSE IF e.action = "completion_notification_sent" THEN "low"
  ELSE IF e.action = "sla_alert" \/ Like(e, "starting in")
          \/ Like(e, "sla warning") \/ Like(e, "min remaining") THEN "high"
  ELSE IF e.action = "escalation_required" THEN "critical"
  ELSE "medium"

ServerPriority(e) ==
  IF e.action = "delay_reported" \/ e.action = "overdue_notification_sent"
     \/ Like(e, "overdue") THEN "critical"
  ELSE IF e.action = "completion_notification_sent" THEN "low"
  ELSE IF e.action = "sla_alert" \/ Like(e, "starting in")
          \/ Like(e, "sla warning") \/ Like(e, "min remaining") THEN "high"
  ELSE IF e.action = "escalation_required" THEN "critical"
  ELSE IF Like(e, "pending") /\ Like(e, "need to start") THEN "medium"
  ELSE IF Like(e, "pending status") THEN "medium"
  ELSE "medium"

\* Math.ceil and Math.floor of a number of ticks taken as minutes
Ceil(a, b) == -((-a) \div b)

\* a value the client's && and || take as true
Truthy(x) == x # NULL /\ x # 0

\* the record is an "SLA Warning - N min remaining" the client recomputes
isLiveWarning(e) ==
  /\ Includes(e, "SLA Warning - ")
  /\ Includes(e, "min remaining")
  /\ e.remaining # NULL
  /\ e.created_at # NULL

\* exactRemainingMinutes, in ticks
exactRemainingMinutes(e) == Min(e.remaining) - (now - e.created_at)

\* currentRemainingMinutes, rounded down instead of up
currentRemainingMinutesFloor(e) ==
  IF (Min(e.remaining) - (now - e.created_at)) \div Sub > 0
  THEN (Min(e.remaining) - (now - e.created_at)) \div Sub ELSE 0

currentRemainingMinutes(e) ==
  IF Ceil(exactRemainingMinutes(e), Sub) > 0
  THEN Ceil(exactRemainingMinutes(e), Sub) ELSE 0

isExpiredSLA(e) == isLiveWarning(e) /\ exactRemainingMinutes(e) <= 0

\* overdueMinutesFromSLA
overdueMinutesFromSLA(e) == Floor(Abs(exactRemainingMinutes(e)), Sub)

\* the stored overdue record the client recomputes
isLiveOverdue(e) ==
  /\ Truthy(e.overdue_by)
  /\ e.created_at # NULL
  /\ e.action = "overdue_notification_sent"

minutesSinceNotification(e) == Floor(now - e.created_at, Sub)

\* overdueMinutes after the recomputation; NULL is undefined
overdueMinutes(e) ==
  IF isLiveOverdue(e) THEN e.overdue_by + minutesSinceNotification(e)
  ELSE e.overdue_by

\* realTimeDetails: the message with its numbers; a text that carries
\* "overdue by N min" is taken to continue with "* M min ago"
realTimeDetails(e) ==
  IF isLiveWarning(e)
  THEN IF isExpiredSLA(e)
       THEN [details |-> "Overdue by %s min * %s min ago",
             n |-> overdueMinutesFromSLA(e),
             ago |-> Floor(now - e.created_at, Sub), tail |-> ""]
       ELSE [details |-> "%s min remaining%s",
             n |-> currentRemainingMinutes(e), ago |-> NULL, tail |-> e.tail]
  ELSE IF isLiveOverdue(e)
  THEN [details |-> "Overdue by %s min * %s min ago",
        n |-> overdueMinutes(e), ago |-> minutesSinceNotification(e) + 2,
        tail |-> ""]
  ELSE [details |-> "%s", n |-> NULL, ago |-> NULL, tail |-> ""]

\* sla_remaining of the transformed record
sla_remaining(e) ==
  IF isLiveWarning(e)
  THEN IF isExpiredSLA(e)
       THEN [details |-> "Overdue by %s min", n |-> overdueMinutesFromSLA(e),
             ago |-> NULL, tail |-> ""]
       ELSE [details |-> "%s min remaining", n |-> currentRemainingMinutes(e),
             ago |-> NULL, tail |-> ""]
  ELSE IF Truthy(overdueMinutes(e))
  THEN [details |-> "Overdue by %s min", n |-> overdueMinutes(e),
        ago |-> NULL, tail |-> ""]
  ELSE NoMessage

\* the priority of the row, with no regard to the live state
priorityOfRow(e, p) == IF p # "" THEN p ELSE "medium"

\* priority of the transformed record, p the priority of the row
priority(e, p) ==
  IF Truthy(overdueMinutes(e)) \/ isExpiredSLA(e) THEN "critical"
  ELSE IF p # "" THEN p ELSE "medium"

\* notificationType of transformDbNotifications
notificationType(e) ==
  IF isExpiredSLA(e) THEN "sla_overdue"
  ELSE IF e.action = "overdue_notification_sent" \/ Like(e, "overdue")
          \/ (e.action = "task_status_changed" /\ Like(e, "overdue"))
       THEN "sla_overdue"
  ELSE IF e.action = "sla_alert" \/ e.action = "sla_warning"
          \/ Includes(e, "starting in") \/ Includes(e, "sla warning")
          \/ Includes(e, "min remaining")
       THEN "sla_warning"
  ELSE IF e.action = "escalation_required" THEN "escalation"
  ELSE IF (Like(e, "pending") /\ Like(e, "need to start"))
          \/ Like(e, "pending status")
       THEN "task_pending"
  ELSE "daily_reminder"

\* action_required with the escalation type left out
action_requiredNoEscalation(e) ==
  \/ notificationType(e) = "sla_overdue"
  \/ isExpiredSLA(e)
  \/ /\ notificationType(e) = "sla_warning"
     /\ Includes(e, "min remaining") \/ Includes(e, "need to start")

action_required(e) ==
  \/ notificationType(e) = "sla_overdue"
  \/ notificationType(e) = "escalation"
  \/ isExpiredSLA(e)
  \/ /\ notificationType(e) = "sla_warning"
     /\ Includes(e, "min remaining") \/ Includes(e, "need to start")

\* a stored record as the listing returns it: details and created_at
Row(rec) ==
  [action |-> rec.action,
   details |->
     CASE rec.details = "SLA Warning - %s min remaining * need to start" ->
            [has |-> {"sla warning", "min remaining", "need to start"},
             cased |-> {"SLA Warning - ", "min remaining", "need to start"}]
       [] rec.details = "Overdue by %s min * %s min ago" ->
            [has |-> {"overdue"}, cased |-> {}]
       [] rec.details
            = "Status automatically changed to overdue due to SLA breach" ->
            [has |-> {"overdue"}, cased |-> {}]
       [] OTHER -> [has |-> {}, cased |-> {}],
   remaining |->
     IF rec.details = "SLA Warning - %s min remaining * need to start"
     THEN rec.n ELSE NULL,
   overdue_by |->
     IF rec.details = "Overdue by %s min * %s min ago" THEN rec.n ELSE NULL,
   created_at |-> rec.timestamp,
   tail |->
     IF rec.details = "SLA Warning - %s min remaining * need to start"
     THEN " * need to start" ELSE ""]

\* the listing returns the record with id i, with its type and priority
ListRow(i) ==
  /\ \E ids \in Listings : i \in ids
  /\ event' = Row(activity_log[i])
  /\ shown' = [Stored EXCEPT !.stage = "listed",
                              !.type = ServerType(Row(activity_log[i])),
                              !.priority = ServerPriority(Row(activity_log[i]))]
  /\ UNCHANGED <<now, subtasks, activity_log, alerts, read_status,
                 archived_status, inflight, syncInterval, ran, outbox,
                 faulted,
                 task, recipientList, response, answer, timers, readResponse>>

\* the listing query computes type and priority of the row
ListEvent ==
  /\ shown.stage = "stored"
  /\ event # NoEvent
  /\ shown' = [shown EXCEPT !.stage = "listed", !.type = ServerType(event),
                             !.priority = ServerPriority(event)]
  /\ UNCHANGED <<now, subtasks, activity_log, alerts, read_status,
                 archived_status, inflight, syncInterval, ran, outbox,
                 faulted, event,
                 task, recipientList, response, answer, timers, readResponse>>

\* getMembersForTask: the members of task 1, and of a task not in the table
getMembersForTask(taskId) ==
  IF taskId = 1
  THEN [assigned_to |-> "John Durairaj",
        reporting_managers |-> <<"Albert Kumar", "Hari Prasad">>,
        escalation_managers |-> <<"Sarah Wilson", "Mike Johnson">>]
  ELSE [assigned_to |-> "Unassigned", reporting_managers |-> <<>>,
        escalation_managers |-> <<>>]

\* the page shows the line "Escalation Managers:" of a notification
showsEscalationManagers(type, managers) ==
  type = "sla_overdue" /\ Len(managers) > 0

\* the transformation, had it written what it derives: the expired Warning
\* record archived and an overdue record logged in its place
transformDbNotificationsWriting ==
  /\ shown.stage = "listed"
  /\ shown' = [shown EXCEPT !.stage = "transformed",
                             !.client_type = notificationType(event),
                             !.action_required = action_required(event),
                             !.client_priority = priority(event, shown.priority),
                             !.message = realTimeDetails(event),
                             !.overdue_minutes = overdueMinutes(event),
                             !.sla_remaining = sla_remaining(event),
                             !.escalation_managers =
                                getMembersForTask(1).escalation_managers,
                             !.shows_escalation =
                                showsEscalationManagers(
                                  notificationType(event),
                                  getMembersForTask(1).escalation_managers)]
  /\ activity_log' =
       IF isExpiredSLA(event) /\ Len(activity_log) < MaxLog
       THEN Append(activity_log,
                   [action |-> "overdue_notification_sent", subtask_id |-> 1,
                    details |-> "Overdue by %s min * %s min ago",
                    n |-> overdueMinutesFromSLA(event), timestamp |-> now])
       ELSE activity_log
  /\ UNCHANGED <<now, subtasks, alerts, read_status,
                 archived_status, inflight, syncInterval, ran, outbox,
                 faulted, event,
                 task, recipientList, response, answer, timers, readResponse>>

\* the client transforms the row it got, a row of task 1, and the page
\* shows the result
transformDbNotifications ==
  /\ shown.stage = "listed"
  /\ shown' = [shown EXCEPT !.stage = "transformed",
                             !.client_type = notificationType(event),
                             !.action_required = action_required(event),
                             !.client_priority = priority(event, shown.priority),
                             !.message = realTimeDetails(event),
                             !.overdue_minutes = overdueMinutes(event),
                             !.sla_remaining = sla_remaining(event),
                             !.escalation_managers =
                                getMembersForTask(1).escalation_managers,
                             !.shows_escalation =
                                showsEscalationManagers(
                                  notificationType(event),
                                  getMembersForTask(1).escalation_managers)]
  /\ UNCHANGED <<now, subtasks, activity_log, alerts, read_status,
                 archived_status, inflight, syncInterval, ran, outbox,
                 faulted, event,
                 task, recipientList, response, answer, timers, readResponse>>

\* ------------------------------------------------------------------------
\* The clock
\* ------------------------------------------------------------------------

Advance ==
  /\ now + Min(Step) <= Min(MaxTime)
  /\ InFlight = {}
  /\ now' = now + Min(Step)
  /\ ran' = {}
  /\ answer' = NoAnswer
  /\ UNCHANGED <<subtasks, activity_log, alerts, read_status, archived_status,
                 inflight, syncInterval, outbox, faulted,
                 event, shown,
                 task, recipientList, response, timers, readResponse>>

Init ==
  /\ now = Min(BootTime)
  /\ subtasks \in InitialUnits
  /\ activity_log = <<>>
  /\ alerts = <<>>
  /\ read_status = {}
  /\ archived_status = {}
  /\ inflight = [p \in Passes |-> <<>>]
  /\ syncInterval = NULL
  /\ timers = {}
  /\ ran = {}
  /\ outbox = {}
  /\ faulted = {}
  /\ event = NoEvent
  /\ shown = Stored
  /\ task = SeedTask
  /\ recipientList = NoRecipients
  /\ response = NoResponse
  /\ readResponse = NoResponse
  /\ answer = NoAnswer

Next ==
  \/ Advance
  \/ \E p \in Passes : PassQuery(p)
  \/ \E p \in Passes : PassInsert(p)
  \/ EnableAutoSync
  \/ DisableAutoSync
  \/ checkSLAAlerts
  \/ \E id \in 1..MaxLog : MarkRead(id)
  \/ \E id \in 1..MaxLog : Archive(id)

Spec == Init /\ [][Next]_vars

\* ------------------------------------------------------------------------
\* The evaluator with store calls and deliveries that can throw
\* ------------------------------------------------------------------------

\* the three callers of the SQL function leave the loop of INSERTs in the
\* same way; the passes here are those of POST /auto-sync
NextFault ==
  \/ Advance
  \/ PassQuery("auto_sync")
  \/ PassInsert("auto_sync")
  \/ PassQueryFails("auto_sync")
  \/ \E k \in 1..MaxLog : PassInsertFails("auto_sync", k)
  \/ \E f \in ServiceFaults : checkSLAAlertsWith(f)

SpecFault == Init /\ [][NextFault]_vars

\* ------------------------------------------------------------------------
\* One evaluation by each path at an instant drawn at clock resolution
\* ------------------------------------------------------------------------

ProbeFrom == BootTime - Step
ProbeTo == StartTime + 2 * WarningWindow

InitPhase ==
  /\ now \in Min(ProbeFrom)..Min(ProbeTo)
  /\ subtasks \in InitialUnits
  /\ \A u \in UnitIds : subtasks[u].started_at <= now
  /\ activity_log = <<>>
  /\ alerts = <<>>
  /\ read_status = {}
  /\ archived_status = {}
  /\ inflight = [p \in Passes |-> <<>>]
  /\ syncInterval = NULL
  /\ timers = {}
  /\ ran = {}
  /\ outbox = {}
  /\ faulted = {}
  /\ event = NoEvent
  /\ shown = Stored
  /\ task = SeedTask
  /\ recipientList = NoRecipients
  /\ response = NoResponse
  /\ readResponse = NoResponse
  /\ answer = NoAnswer

NextPhase ==
  \/ PassQuery("auto_sync")
  \/ PassInsert("auto_sync")
  \/ checkSLAAlerts

SpecPhase == InitPhase /\ [][NextPhase]_vars

\* ------------------------------------------------------------------------
\* One record of any action tag and details text, listed and transformed
\* ------------------------------------------------------------------------

InitClassify ==
  /\ now = Min(BootTime)
  /\ subtasks \in {[u \in UnitIds |-> Resolved]}
  /\ activity_log = <<>>
  /\ alerts = <<>>
  /\ read_status = {}
  /\ archived_status = {}
  /\ inflight = [p \in Passes |-> <<>>]
  /\ syncInterval = NULL
  /\ timers = {}
  /\ ran = {}
  /\ outbox = {}
  /\ faulted = {}
  /\ event \in EventRecords
  /\ shown = Stored
  /\ task = SeedTask
  /\ recipientList = NoRecipients
  /\ response = NoResponse
  /\ readResponse = NoResponse
  /\ answer = NoAnswer

NextClassify ==
  \/ ListEvent
  \/ transformDbNotifications

SpecClassify == InitClassify /\ [][NextClassify]_vars

\* ------------------------------------------------------------------------
\* One stored Warning or Overdue record, read again and again while the
\* client's clock runs
\* ------------------------------------------------------------------------

LiveTo == BootTime + LiveMinutes + 2

\* the records the evaluator and the maintenance routes write
LiveRecords ==
  {[action |-> "sla_alert", subtask_id |-> 1,
    details |-> "SLA Warning - %s min remaining * need to start",
    n |-> m, timestamp |-> Min(BootTime)] : m \in 0..LiveMinutes}
  \cup
  {[action |-> "overdue_notification_sent", subtask_id |-> 1,
    details |-> "Overdue by %s min * %s min ago",
    n |-> m, timestamp |-> Min(BootTime)] : m \in 0..LiveMinutes}

InitLive ==
  /\ now = Min(BootTime)
  /\ subtasks \in {[u \in UnitIds |-> Resolved]}
  /\ activity_log \in {<<r>> : r \in LiveRecords}
  /\ alerts = <<>>
  /\ read_status = {}
  /\ archived_status = {}
  /\ inflight = [p \in Passes |-> <<>>]
  /\ syncInterval = NULL
  /\ timers = {}
  /\ ran = {}
  /\ outbox = {}
  /\ faulted = {}
  /\ event = NoEvent
  /\ shown = Stored
  /\ task = SeedTask
  /\ recipientList = NoRecipients
  /\ response = NoResponse
  /\ readResponse = NoResponse
  /\ answer = NoAnswer

\* the client's clock: setCurrentTime, the rows are transformed anew
Tick ==
  /\ now < Min(LiveTo)
  /\ now' = now + 1
  /\ event' = NoEvent
  /\ shown' = Stored
  /\ UNCHANGED <<subtasks, activity_log, alerts, read_status, archived_status,
                 inflight, syncInterval, ran, outbox, faulted,
                 task, recipientList, response, answer, timers, readResponse>>

NextLive ==
  \/ Tick
  \/ \E i \in 1..MaxLog : ListRow(i)
  \/ transformDbNotifications
  \/ \E id \in 1..MaxLog : MarkRead(id)
  \/ \E id \in 1..MaxLog : Archive(id)

SpecLive == InitLive /\ [][NextLive]_vars

\* ------------------------------------------------------------------------
\* The recipient lists of the alert service
\* ------------------------------------------------------------------------

\* JSON.parse(column || '[]')
ParseManagers(column) == IF column.null THEN <<>> ELSE column.names

\* names.map(name => ({name, type}))
Typed(names, type) ==
  [i \in 1..Len(names) |-> [name |-> names[i], type |-> type]]

\* recipients of sendSLAWarningAlert
warningRecipientList(t) ==
  <<[name |-> t.assigned_to, type |-> "assigned"]>>
    \o Typed(ParseManagers(t.reporting_managers), "reporting")

\* the list of an overdue alert with the escalation managers put first
overdueRecipientListEscalationFirst(t) ==
  <<[name |-> t.assigned_to, type |-> "assigned"]>>
    \o Typed(ParseManagers(t.escalation_managers), "escalation")
    \o Typed(ParseManagers(t.reporting_managers), "reporting")

\* recipients of sendSLAOverdueAlert
overdueRecipientList(t) ==
  <<[name |-> t.assigned_to, type |-> "assigned"]>>
    \o Typed(ParseManagers(t.reporting_managers), "reporting")
    \o Typed(ParseManagers(t.escalation_managers), "escalation")

\* the alert of a type builds its list for the task
BuildRecipients(type) ==
  /\ recipientList = NoRecipients
  /\ recipientList' = [alert_type |-> type,
                     list |-> IF type = "sla_warning"
                              THEN warningRecipientList(task)
                              ELSE overdueRecipientList(task)]
  /\ UNCHANGED <<now, subtasks, activity_log, alerts, read_status,
                 archived_status, inflight, syncInterval, ran, outbox,
                 faulted, event, shown, task, response, answer, timers, readResponse>>

Names == {"Albert Kumar", "Hari Prasad", "Sarah Wilson"}

\* a manager column: no value, or the JSON text of up to MaxManagers names
ManagerColumns ==
  {NullColumn}
    \cup {Column(names) : names \in UNION {[1..k -> Names] : k \in 0..MaxManagers}}

InitRecipients ==
  /\ now = Min(BootTime)
  /\ subtasks \in {[u \in UnitIds |-> Resolved]}
  /\ activity_log = <<>>
  /\ alerts = <<>>
  /\ read_status = {}
  /\ archived_status = {}
  /\ inflight = [p \in Passes |-> <<>>]
  /\ syncInterval = NULL
  /\ timers = {}
  /\ ran = {}
  /\ outbox = {}
  /\ faulted = {}
  /\ event = NoEvent
  /\ shown = Stored
  /\ task \in [assigned_to : {"John Durairaj", "Albert Kumar"},
                reporting_managers : ManagerColumns,
                escalation_managers : ManagerColumns]
  /\ recipientList = NoRecipients
  /\ response = NoResponse
  /\ readResponse = NoResponse
  /\ answer = NoAnswer

NextRecipients == \E type \in {"sla_warning", "sla_overdue"} : BuildRecipients(type)

SpecRecipients == InitRecipients /\ [][NextRecipients]_vars

\* ------------------------------------------------------------------------
\* The status routes on a log of one stored record
\* ------------------------------------------------------------------------

NextStatus ==
  \/ \E id \in 1..MaxLog : MarkRead(id)
  \/ \E id \in 1..MaxLog : Archive(id)
  \/ \E id \in 1..MaxLog : ArchiveMissing(id)

SpecStatus == InitLive /\ [][NextStatus]_vars

\* ------------------------------------------------------------------------
\* The maintenance routes: records written by hand, and the clean-up
\* ------------------------------------------------------------------------

\* the record of POST /test/create-pending-check (its text ends with
\* "Pending Status * need to start")
PendingRecord(t) ==
  [action |-> "status_changed", subtask_id |-> CheckSubtask,
   details |-> "Pending Status * need to start", n |-> 0, timestamp |-> t]

\* POST /test/create-pending-check
CreatePendingCheck ==
  /\ ~\E i \in 1..Len(activity_log) :
        /\ activity_log[i].action = "status_changed"
        /\ activity_log[i].subtask_id = CheckSubtask
        /\ activity_log[i].details = "Pending Status * need to start"
        /\ activity_log[i].timestamp >= now - Min(PendingLookback)
  /\ Len(activity_log) < MaxLog
  /\ activity_log' = Append(activity_log, PendingRecord(now))
  /\ UNCHANGED <<now, subtasks, alerts, read_status, archived_status,
                 inflight, syncInterval, ran, outbox, faulted, event, shown,
                 task, recipientList, response, answer, timers, readResponse>>

\* the warning records of the task that are not archived
ActiveWarnings ==
  {i \in 1..Len(activity_log) :
     /\ activity_log[i].details
          = "SLA Warning - %s min remaining * need to start"
     /\ i \notin archived_status}

\* POST /sync-sla-warning-time with remaining_minutes = m: the warnings
\* of the task are archived and a new one is written, unless the latest
\* of them is within a minute of m
SyncSlaWarningTime(m) ==
  /\ \A i \in ActiveWarnings :
        (\A j \in ActiveWarnings :
           activity_log[j].timestamp <= activity_log[i].timestamp)
        => Abs(activity_log[i].n - m) > 1
  /\ Len(activity_log) < MaxLog
  /\ Cardinality(read_status) + Cardinality(archived_status \cup ActiveWarnings)
       <= MaxStatus
  /\ archived_status' = archived_status \cup ActiveWarnings
  /\ activity_log' =
       Append(activity_log,
              [action |-> "sla_alert", subtask_id |-> CheckSubtask,
               details |-> "SLA Warning - %s min remaining * need to start",
               n |-> m, timestamp |-> now])
  /\ UNCHANGED <<now, subtasks, alerts, read_status,
                 inflight, syncInterval, ran, outbox, faulted, event, shown,
                 task, recipientList, response, answer, timers, readResponse>>

\* the rows the clean-up ranks: status_changed records of task 16 with
\* "pending" in the text
Ranked ==
  {i \in 1..Len(activity_log) :
     /\ activity_log[i].action = "status_changed"
     /\ activity_log[i].subtask_id = CheckSubtask
     /\ activity_log[i].details = "Pending Status * need to start"}

\* the id of a record once the records of del are gone (the id of the
\* model is the position in the log)
Renumbered(i, del) == i - Cardinality({d \in del : d < i})

\* DELETE /test/clean-duplicates: of the ranked rows, partitioned by
\* action, task, subtask and details, all but the latest are deleted, and
\* their status rows with them (ON DELETE CASCADE)
CleanDuplicates ==
  \E keep \in Ranked :
    /\ \A j \in Ranked :
         activity_log[j].timestamp <= activity_log[keep].timestamp
    /\ Ranked \ {keep} # {}
    /\ activity_log' =
         [k \in 1..(Len(activity_log) - Cardinality(Ranked \ {keep})) |->
            activity_log[CHOOSE i \in (1..Len(activity_log)) \ (Ranked \ {keep}) :
                           Renumbered(i, Ranked \ {keep}) = k]]
    /\ read_status' =
         {Renumbered(i, Ranked \ {keep}) : i \in read_status \ (Ranked \ {keep})}
    /\ archived_status' =
         {Renumbered(i, Ranked \ {keep}) :
            i \in archived_status \ (Ranked \ {keep})}
    /\ UNCHANGED <<now, subtasks, alerts, inflight, syncInterval, ran, outbox,
                   faulted, event, shown, task, recipientList, response, answer, timers, readResponse>>

\* a day and a minute pass
NextDay ==
  /\ now + Min(PendingLookback + 1)
       <= Min(BootTime) + MaxDays * Min(PendingLookback + 1)
  /\ now' = now + Min(PendingLookback + 1)
  /\ UNCHANGED <<subtasks, activity_log, alerts, read_status, archived_status,
                 inflight, syncInterval, ran, outbox, faulted, event, shown,
                 task, recipientList, response, answer, timers, readResponse>>

InitMaintenance ==
  /\ now = Min(BootTime)
  /\ subtasks \in {[u \in UnitIds |-> Resolved]}
  /\ activity_log = <<>>
  /\ alerts = <<>>
  /\ read_status = {}
  /\ archived_status = {}
  /\ inflight = [p \in Passes |-> <<>>]
  /\ syncInterval = NULL
  /\ timers = {}
  /\ ran = {}
  /\ outbox = {}
  /\ faulted = {}
  /\ event = NoEvent
  /\ shown = Stored
  /\ task = SeedTask
  /\ recipientList = NoRecipients
  /\ response = NoResponse
  /\ readResponse = NoResponse
  /\ answer = NoAnswer

NextMaintenance ==
  \/ NextDay
  \/ CreatePendingCheck
  \/ \E m \in {5, 10} : SyncSlaWarningTime(m)
  \/ CleanDuplicates
  \/ \E id \in 1..MaxLog : MarkRead(id)
  \/ \E id \in 1..MaxLog : Archive(id)

SpecMaintenance == InitMaintenance /\ [][NextMaintenance]_vars

\* ------------------------------------------------------------------------
\* GET /: the answer, with its page and its counts
\* ------------------------------------------------------------------------

\* mockNotifications: three records that are not in the store, the third
\* one read
mockNotifications ==
  <<[src |-> "mock", id |-> 1, read |-> FALSE],
    [src |-> "mock", id |-> 2, read |-> FALSE],
    [src |-> "mock", id |-> 3, read |-> TRUE]>>

\* Array.prototype.slice(offset, offset + limit)
Slice(q, offset, limit) ==
  SubSeq(q, offset + 1, IF offset + limit < Len(q) THEN offset + limit ELSE Len(q))

\* the rows of a listing in an order ORDER BY rn.timestamp DESC allows
Ordered(ids) ==
  {q \in [1..Cardinality(ids) -> ids] :
     /\ \A i, j \in 1..Cardinality(ids) : i # j => q[i] # q[j]
     /\ \A i, j \in 1..Cardinality(ids) :
          i < j => activity_log[q[i]].timestamp >= activity_log[q[j]].timestamp}

\* the rows of a page
PageRows(q) ==
  [k \in 1..Len(q) |-> [src |-> "log", id |-> q[k], read |-> q[k] \in read_status]]

\* countsQuery: the records of the log that are not archived
Counted == {i \in 1..Len(activity_log) : NotArchived(i)}

\* GET / with the store reachable, after its evaluator pass: the page of
\* the listing query and the counts of countsQuery
GetNotifications(limit, offset) ==
  /\ "sql" \in ran
  /\ inflight["get"] = <<>>
  /\ \E f \in Rankings(activity_log) : \E q \in Ordered(ListedIds(f)) :
       answer' =
         [NoAnswer EXCEPT
            !.route = "get", !.status = 200,
            !.limit = limit, !.offset = offset,
            !.notifications = PageRows(Slice(q, offset, limit)),
            !.total = Cardinality(Counted),
            !.unread_count = Cardinality(Counted \ read_status),
            !.has_more = offset + limit < Cardinality(Counted)]
  /\ UNCHANGED <<now, subtasks, activity_log, alerts, read_status,
                 archived_status, inflight, syncInterval, ran, outbox,
                 faulted, event, shown, task, recipientList, response, timers, readResponse>>

\* the else branch of isDatabaseAvailable(): the mock records, paged
mockFallback(limit, offset) ==
  [NoAnswer EXCEPT
     !.route = "get", !.status = 200,
     !.limit = limit, !.offset = offset,
     !.notifications = Slice(mockNotifications, offset, limit),
     !.total = Len(mockNotifications),
     !.unread_count =
        Cardinality({k \in 1..Len(mockNotifications) : ~mockNotifications[k].read}),
     !.has_more = offset + limit < Len(mockNotifications)]

\* GET / with the store unreachable: SELECT 1 throws
GetNotificationsUnavailable(limit, offset) ==
  /\ inflight["get"] = <<>>
  /\ answer' = [mockFallback(limit, offset) EXCEPT !.route = "get_unavailable"]
  /\ UNCHANGED <<now, subtasks, activity_log, alerts, read_status,
                 archived_status, inflight, syncInterval, ran, outbox,
                 faulted, event, shown, task, recipientList, response, timers, readResponse>>

\* limit and offset of the requests
Limits == {1, MaxLog}
Offsets == {0, 1}

NextListing ==
  \/ Advance
  \/ \E p \in {"get", "auto_sync"} : PassQuery(p)
  \/ \E p \in {"get", "auto_sync"} : PassInsert(p)
  \/ \E id \in 1..MaxLog : MarkRead(id)
  \/ \E id \in 1..MaxLog : Archive(id)
  \/ \E limit \in Limits : \E offset \in Offsets : GetNotifications(limit, offset)
  \/ \E limit \in Limits : \E offset \in Offsets :
       GetNotificationsUnavailable(limit, offset)

SpecListing == Init /\ [][NextListing]_vars

\* ------------------------------------------------------------------------
\* Vocabulary of the properties
\* ------------------------------------------------------------------------

PhaseActions == {"sla_alert", "overdue_notification_sent"}

\* ids of the activity log records of a unit with an action
Events(u, action) ==
  {i \in 1..Len(activity_log) :
     activity_log[i].subtask_id = u /\ activity_log[i].action = action}

\* positions of the alert rows of a unit with an alert type
Alerts(u, type) ==
  {i \in 1..Len(alerts) :
     alerts[i].subtask_id = u /\ alerts[i].alert_type = type}

\* no store call of an evaluator pass is outstanding
Quiescent == InFlight = {}

\* ------------------------------------------------------------------------
\* C1: for each unit and each phase tag (sla_alert, overdue_notification_sent)
\* at most one non-archived event of that tag and unit was created inside
\* the last 60 minutes, in every reachable state.
\* ------------------------------------------------------------------------
C1_OneActiveEventPerPhaseInWindow ==
  \A u \in UnitIds : \A a \in PhaseActions :
    Cardinality({i \in Events(u, a) :
                   /\ i \notin archived_status
                   /\ activity_log[i].timestamp > now - Min(Lookback)}) <= 1

\* ------------------------------------------------------------------------
\* C2: two ticks T1 < T2 less than the lookback apart, the unit in Warning at
\* both: the second tick emits nothing.  Warning events of one unit created
\* at different instants are at least the lookback apart, in the activity
\* log and in the alert table, and a completed pass over a unit in Warning
\* leaves a Warning event of it inside the lookback.
\* ------------------------------------------------------------------------
C2_SecondWarningTickEmitsNothing ==
  \A u \in UnitIds :
    /\ \A i, j \in Events(u, "sla_alert") :
         activity_log[i].timestamp < activity_log[j].timestamp
           => activity_log[j].timestamp - activity_log[i].timestamp >= Min(Lookback)
    /\ \A i, j \in Alerts(u, "sla_warning") :
         alerts[i].created_at < alerts[j].created_at
           => alerts[j].created_at - alerts[i].created_at >= Min(ServiceWarningLookback)
    /\ ("sql" \in ran /\ Quiescent /\ WarningDue(subtasks[u], now))
         => \E i \in Events(u, "sla_alert") :
              activity_log[i].timestamp > now - Min(Lookback)

\* a second tick has run over a unit still in Warning whose Warning event
\* is from an earlier tick, and the unit has that one event only
C2_Witness ==
  \E u \in UnitIds :
    /\ WarningDue(subtasks[u], now)
    /\ "sql" \in ran
    /\ Quiescent
    /\ Cardinality(Events(u, "sla_alert")) = 1
    /\ \E i \in Events(u, "sla_alert") : activity_log[i].timestamp < now

\* ------------------------------------------------------------------------
\* C3: with overlapping passes (GET /, POST /auto-sync, the timer callback)
\* no unit ends up with two events of the same phase less than the lookback
\* apart.
\* ------------------------------------------------------------------------
C3_NoDuplicateUnderOverlap ==
  \A u \in UnitIds : \A a \in PhaseActions :
    \A i, j \in Events(u, a) :
      i < j => activity_log[j].timestamp - activity_log[i].timestamp >= Min(Lookback)

\* ------------------------------------------------------------------------
\* C4: a unit already overdue on the first tick that observes it gets exactly
\* one Overdue event and no Warning event, on that tick and ever after.
\* ------------------------------------------------------------------------
OverdueAtBoot(u) ==
  /\ subtasks[u].start_time # NULL
  /\ subtasks[u].start_time < Min(BootTime) - Min(OverdueDelay)

C4_ColdStartOneOverdueNoWarning ==
  \A u \in UnitIds :
    OverdueAtBoot(u) =>
      /\ Events(u, "sla_alert") = {}
      /\ Cardinality(Events(u, "overdue_notification_sent")) <= 1
      /\ ("sql" \in ran /\ Quiescent /\ Eligible(subtasks[u]))
           => Cardinality(Events(u, "overdue_notification_sent")) = 1

\* ------------------------------------------------------------------------
\* C5: a unit that passes its deadline and stays unresolved gets exactly one
\* Overdue event over the whole run, also on ticks more than 60 minutes
\* after the first one: no unit has Overdue events of two different
\* instants.
\* ------------------------------------------------------------------------
C5_OneOverdueEventOverTheRun ==
  \A u \in UnitIds :
    /\ \A i, j \in Events(u, "overdue_notification_sent") :
         activity_log[i].timestamp = activity_log[j].timestamp
    /\ \A i, j \in Alerts(u, "sla_overdue") :
         alerts[i].created_at = alerts[j].created_at

\* ------------------------------------------------------------------------
\* C6: a unit is classified as Warning exactly when 0 < remaining <= 15
\* minutes, remaining = deadline - now, a remaining time below one minute
\* and one of exactly 15 minutes included.  The deadline is the one the
\* path computes.
\* ------------------------------------------------------------------------
Scanned(st) == st.is_active /\ st.status \in {"pending", "in_progress"}

C6_WarningIffWithinWindow ==
  \A u \in UnitIds :
    /\ ("sql" \in ran /\ Quiescent)
         => (Events(u, "sla_alert") # {}
               <=> /\ Eligible(subtasks[u])
                   /\ 0 < subtasks[u].start_time - now
                   /\ subtasks[u].start_time - now <= Min(WarningWindow))
    /\ "service" \in ran
         => (Alerts(u, "sla_warning") # {}
               <=> /\ Scanned(subtasks[u])
                   /\ 0 < dueTime(subtasks[u], now) - now
                   /\ dueTime(subtasks[u], now) - now <= Min(ServiceWarningWindow))

\* ------------------------------------------------------------------------
\* C7: a unit is classified as Overdue exactly when remaining <= 0, from the
\* deadline instant onward, with no interval without a phase after Warning.
\* ------------------------------------------------------------------------
\* the service path has scanned the unit: it is of an active task and was
\* pending or in progress (overdue is the status the path itself sets)
ServiceScanned(st) == st.is_active /\ st.status # "completed"

Deadline(st) ==
  (IF st.started_at # NULL THEN st.started_at ELSE st.start_time) + st.sla

C9_OverdueStatusAfterPass ==
  \A u \in UnitIds :
    /\ (Quiescent /\ Events(u, "overdue_notification_sent") # {})
         => subtasks[u].status = "overdue"
    /\ Alerts(u, "sla_overdue") # {} => subtasks[u].status = "overdue"
    /\ Cardinality(Events(u, "status_changed")) <= 1

\* ------------------------------------------------------------------------
\* C10: no evaluator path emits an event for, alerts for, or changes the
\* status of a unit whose auto_notify flag is false or whose status is
\* outside {pending, in_progress}.
\* ------------------------------------------------------------------------
Untouched(u) ==
  /\ \A i \in 1..Len(activity_log) : activity_log[i].subtask_id # u
  /\ \A i \in 1..Len(alerts) : alerts[i].subtask_id # u

C10_IneligibleUnitsUntouched ==
  \A u \in UnitIds :
    /\ ~subtasks[u].auto_notify
         => Untouched(u) /\ subtasks[u].status \in {"pending", "in_progress"}
    /\ subtasks[u].status = "completed" => Untouched(u)


\* ------------------------------------------------------------------------
\* C11: when evaluating a unit or persisting its event fails during a pass,
\* every other unit that is due in the same pass is still evaluated and its
\* event is still persisted: once the passes of an instant have ended, a due
\* unit that no call failed for has its event or its alert.
\* ------------------------------------------------------------------------
C11_OtherUnitsSurviveAFailure ==
  \A u \in UnitIds :
    /\ ("sql_insert_failed" \in ran /\ Quiescent /\ u \notin FaultedAt(now))
         => /\ WarningDue(subtasks[u], now)
                 => \E i \in Events(u, "sla_alert") :
                      activity_log[i].timestamp > now - Min(Lookback)
            /\ OverdueDue(subtasks[u], now)
                 => \E i \in Events(u, "overdue_notification_sent") :
                      activity_log[i].timestamp > now - Min(Lookback)
    /\ ("service_failed" \in ran /\ u \notin FaultedAt(now) /\ Scanned(subtasks[u])
        /\ minutesRemaining(subtasks[u], now) > 0
        /\ minutesRemaining(subtasks[u], now) <= ServiceWarningWindow)
         => \E i \in Alerts(u, "sla_warning") :
              alerts[i].created_at > now - Min(ServiceWarningLookback)

\* ------------------------------------------------------------------------
\* C12: a unit whose notification fails on a tick (the store call fails, or
\* the delivery to every recipient fails) is not recorded as notified, so
\* the next tick attempts it again: every alert row stands for a mail that
\* some recipient got, and a unit the evaluator has set to overdue, which no
\* later tick looks at, has its Overdue alert row.
\* ------------------------------------------------------------------------
C12_FailedNotificationNotRecorded ==
  \A u \in UnitIds :
    /\ \A i \in 1..Len(alerts) :
         alerts[i].subtask_id = u
           => \E m \in outbox : /\ m.subtask_id = u
                                /\ m.alert_type = alerts[i].alert_type
                                /\ m.at = alerts[i].created_at
    /\ subtasks[u].status = "overdue" => Alerts(u, "sla_overdue") # {}

\* ------------------------------------------------------------------------
\* C13: once an event has been archived it is in no active listing GET /
\* returns, however recent it is and whatever other events exist.
\* ------------------------------------------------------------------------
C13_ArchivedNeverListed ==
  \A ids \in Listings : ids \cap archived_status = {}

\* an event written at this instant is archived while another event is
\* listed
C13_Witness ==
  /\ \E i \in archived_status : activity_log[i].timestamp = now
  /\ \E ids \in Listings : ids # {}

\* ------------------------------------------------------------------------
\* C14: the dedup check for a (unit, phase) suppresses a new event exactly
\* when an active (non-archived) event of that unit with the phase's action
\* tag was created within the last hour; an archived event does not count.
\* Every query of a pass returns the row of a due unit exactly when the unit
\* has no such active event.
\* ------------------------------------------------------------------------
ActiveRecent(u, action) ==
  \E i \in Events(u, action) :
    /\ i \notin archived_status
    /\ activity_log[i].timestamp > now - Min(Lookback)

Fetched(rows, u, type) ==
  \E k \in 1..Len(rows) :
    rows[k].subtask_id = u /\ rows[k].notification_type = type

DedupAsClaimed(rows) ==
  \A u \in UnitIds :
    /\ WarningDue(subtasks[u], now)
         => (Fetched(rows, u, "sla_warning") <=> ~ActiveRecent(u, "sla_alert"))
    /\ OverdueDue(subtasks[u], now)
         => (Fetched(rows, u, "sla_overdue")
               <=> ~ActiveRecent(u, "overdue_notification_sent"))

C14_DedupCountsActiveEventsOnly ==
  [][/\ \A p \in Passes :
          (inflight[p] = <<>> /\ inflight'[p] # <<>>) => DedupAsClaimed(inflight'[p])
     /\ (inflight' = inflight /\ activity_log' = activity_log
         /\ "sql" \in ran' /\ "sql" \notin ran)
          => DedupAsClaimed(<<>>)]_vars

\* ------------------------------------------------------------------------
\* The classification table of the specification: seven rules, the first
\* that matches wins
\* ------------------------------------------------------------------------
classify(e) ==
  IF e.action = "delay_reported" THEN <<"task_delayed", "medium">>
  ELSE IF e.action = "overdue_notification_sent" \/ Like(e, "overdue")
       THEN <<"sla_overdue", "critical">>
  ELSE IF e.action = "completion_notification_sent"
       THEN <<"task_completed", "low">>
  ELSE IF e.action = "sla_alert" \/ Like(e, "starting in")
          \/ Like(e, "sla warning") \/ Like(e, "min remaining")
       THEN <<"sla_warning", "high">>
  ELSE IF e.action = "escalation_required" THEN <<"escalation", "critical">>
  ELSE IF Like(e, "pending")
          /\ (Like(e, "need to start") \/ Like(e, "pending status"))
       THEN <<"task_pending", "medium">>
  ELSE <<"daily_reminder", "medium">>

Listed == shown.stage \in {"listed", "transformed"}
Transformed == shown.stage = "transformed"

\* ------------------------------------------------------------------------
\* C15: for every action tag and every combination of the detail-text
\* features, the type and the priority the listing computes are those of the
\* seven-rule first-match-wins table.
\* ------------------------------------------------------------------------
C15_ServerMatchesTable ==
  (Listed /\ "completed" \notin event.details.has)
    => <<shown.type, shown.priority>> = classify(event)

\* ------------------------------------------------------------------------
\* C16: every event with action tag delay_reported is classified as type
\* task_delayed with priority medium, whatever its detail text, by the
\* listing and by the client.
\* ------------------------------------------------------------------------
C16_DelayReportedIsDelayedMedium ==
  event.action = "delay_reported" =>
    /\ Listed => shown.type = "task_delayed" /\ shown.priority = "medium"
    /\ Transformed => shown.client_type = "task_delayed"

\* ------------------------------------------------------------------------
\* C17: every event with action tag overdue_notification_sent is classified
\* as (sla_overdue, critical) whatever its detail text: the listing computes
\* that type and priority, and the client derives the type sla_overdue.
\* ------------------------------------------------------------------------
C17_OverdueTagIsOverdueCritical ==
  event.action = "overdue_notification_sent" =>
    /\ Listed => shown.type = "sla_overdue" /\ shown.priority = "critical"
    /\ Transformed => shown.client_type = "sla_overdue"

\* an Overdue-tagged record whose text does not say overdue and carries
\* the substrings of other rules has been listed and transformed
C17_Witness ==
  /\ Transformed
  /\ event.action = "overdue_notification_sent"
  /\ ~Like(event, "overdue")
  /\ Like(event, "min remaining")
  /\ Like(event, "pending status")
  /\ shown.type = "sla_overdue"

\* ------------------------------------------------------------------------
\* C18: an event whose detail contains "overdue" and whose action tag is not
\* delay_reported is classified as (sla_overdue, critical), also when its
\* tag is completion_notification_sent, sla_alert or escalation_required.
\* ------------------------------------------------------------------------
C18_OverdueTextBeforeOtherTags ==
  (Listed /\ Like(event, "overdue") /\ event.action # "delay_reported")
    => shown.type = "sla_overdue" /\ shown.priority = "critical"

\* ------------------------------------------------------------------------
\* C19: an event with action tag status_changed whose detail contains
\* "pending" together with "need to start" or "pending status", and none of
\* the overdue or warning substrings, is classified as (task_pending,
\* medium) by the listing, and as task_pending by the client.
\* ------------------------------------------------------------------------
PendingStatusChange(e) ==
  /\ e.action = "status_changed"
  /\ Like(e, "pending")
  /\ Like(e, "need to start") \/ Like(e, "pending status")
  /\ e.details.has
       \cap {"overdue", "starting in", "sla warning", "min remaining"} = {}

C20_ActionRequired ==
  Transformed =>
    /\ shown.action_required
         <=> \/ shown.client_type \in {"sla_overdue", "escalation"}
             \/ /\ shown.client_type = "sla_warning"
                /\ \/ Includes(event, "min remaining")
                   \/ Includes(event, "need to start")
    /\ shown.client_type \in {"task_delayed", "task_completed", "task_pending",
                              "daily_reminder"}
         => ~shown.action_required

\* an escalation record has been transformed and requires action
C20_Witness ==
  /\ Transformed
  /\ shown.client_type = "escalation"
  /\ shown.action_required

\* ------------------------------------------------------------------------
\* Live recomputation on the client
\* ------------------------------------------------------------------------

\* the row of a Warning record has been transformed at this instant
WarningTransformed ==
  /\ shown.stage = "transformed"
  /\ event.action = "sla_alert"
  /\ event.remaining # NULL

\* ticks since the record was created
Elapsed == now - event.created_at

\* C21: a Warning record created at t0 with R minutes remaining shows, at
\* every now with t0 <= now < t0 + R, ceil(R - (now - t0)) minutes (the
\* least whole number of minutes not below the exact remainder), which is
\* R - e after a whole number e of minutes, and the text after
\* "min remaining" is the stored one
C21_CountdownIsCeiling ==
  (WarningTransformed /\ 0 <= Elapsed /\ Elapsed < Min(event.remaining))
  => /\ shown.message.details = "%s min remaining%s"
     /\ shown.message.n * Sub >= Min(event.remaining) - Elapsed
     /\ (shown.message.n - 1) * Sub < Min(event.remaining) - Elapsed
     /\ shown.sla_remaining.n = shown.message.n
     /\ Elapsed % Sub = 0
          => shown.message.n = event.remaining - Elapsed \div Sub
     /\ shown.message.tail = " * need to start"
     /\ shown.client_type = "sla_warning"

\* R = 15 shows 10 after 5 minutes
C21_Witness ==
  /\ WarningTransformed
  /\ event.remaining = 15
  /\ Elapsed = Min(5)
  /\ shown.message.n = 10
  /\ shown.message.tail = " * need to start"

\* C22: a Warning record created at t0 with R minutes remaining is, at every
\* now >= t0 + R, reported as overdue: type sla_overdue and an
\* overdue_minutes field of floor((now - t0) - R) minutes
C22_ExpiredWarningReportsOverdueMinutes ==
  (WarningTransformed /\ Elapsed >= Min(event.remaining))
  => /\ shown.client_type = "sla_overdue"
     /\ shown.overdue_minutes # NULL
     /\ shown.overdue_minutes * Sub <= Elapsed - Min(event.remaining)
     /\ (shown.overdue_minutes + 1) * Sub > Elapsed - Min(event.remaining)

\* the read that is being made promotes an expired Warning record
Promotes ==
  /\ shown.stage = "listed"
  /\ shown'.stage = "transformed"
  /\ event.action = "sla_alert"
  /\ shown'.client_type = "sla_overdue"

OverdueTransformed ==
  /\ shown.stage = "transformed"
  /\ event.action = "overdue_notification_sent"
  /\ event.overdue_by # NULL

\* C24: a stored Overdue record whose text records N0 minutes, N0 >= 0,
\* shows at now N0 plus the whole minutes elapsed since it was created
C24_OverdueGrowsWithElapsed ==
  OverdueTransformed
  => shown.overdue_minutes = event.overdue_by + Elapsed \div Sub

\* the transformed record is overdue at this instant: stored as an Overdue
\* event, or a Warning record promoted by the read
LiveOverdue ==
  /\ shown.stage = "transformed"
  /\ \/ event.action = "overdue_notification_sent"
     \/ event.action = "sla_alert" /\ shown.client_type = "sla_overdue"

\* C25: a record whose live state is overdue, stored as an Overdue event
\* with whatever text or promoted from a Warning record, is returned with
\* priority critical, whatever priority the listing gave the row
C25_LiveOverdueIsCritical ==
  LiveOverdue => shown.client_priority = "critical"

\* a promoted Warning record the listing gave priority high
C25_Witness ==
  /\ LiveOverdue
  /\ event.action = "sla_alert"
  /\ shown.priority = "high"
  /\ shown.client_priority = "critical"

\* C26: the escalation managers of an event are surfaced exactly when its
\* derived type, after the live promotion, is sla_overdue or escalation
C26_EscalationManagersByType ==
  shown.stage = "transformed"
  => (shown.shows_escalation
        <=> shown.client_type \in {"sla_overdue", "escalation"})

\* the names of a list of recipients of one type, in the order of the list
NamesOfType(list, type) ==
  LET of == SelectSeq(list, LAMBDA r : r.type = type)
  IN  [i \in 1..Len(of) |-> of[i].name]

\* positions of the recipients of a type
PositionsOfType(list, type) == {i \in 1..Len(list) : list[i].type = type}

\* C27: the list of a Warning alert is the assignee and then the reporting
\* managers in their configured order, with no escalation manager; the list
\* of an Overdue alert is the assignee, then the reporting managers, then
\* the escalation managers, each group in its configured order
C27_RecipientsInConfiguredOrder ==
  recipientList # NoRecipients
  => LET list == recipientList.list
         reporting == task.reporting_managers.names
         escalation == task.escalation_managers.names
     IN  /\ list[1] = [name |-> task.assigned_to, type |-> "assigned"]
         /\ PositionsOfType(list, "assigned") = {1}
         /\ NamesOfType(list, "reporting") = reporting
         /\ \A i \in PositionsOfType(list, "reporting") :
              \A j \in PositionsOfType(list, "escalation") : i < j
         /\ recipientList.alert_type = "sla_warning"
              => PositionsOfType(list, "escalation") = {}
         /\ recipientList.alert_type = "sla_overdue"
              => NamesOfType(list, "escalation") = escalation

\* an overdue alert for a task with two reporting and two escalation
\* managers, neither pair in alphabetical order
C27_Witness ==
  /\ recipientList # NoRecipients
  /\ recipientList.alert_type = "sla_overdue"
  /\ task.reporting_managers.names = <<"Hari Prasad", "Albert Kumar">>
  /\ task.escalation_managers.names = <<"Sarah Wilson", "Albert Kumar">>
  /\ Len(recipientList.list) = 5

C29_EventsAreNeverChangedOrRemoved ==
  [][/\ Len(activity_log') >= Len(activity_log)
     /\ \A i \in 1..Len(activity_log) : activity_log'[i] = activity_log[i]]_vars

\* the timer callback fetches rows in this step
TimerPassStarts ==
  inflight["timer"] = <<>> /\ inflight'["timer"] # <<>>

\* the timer callback has made its INSERTs in this step
TimerPassEnds ==
  inflight["timer"] # <<>> /\ inflight'["timer"] = <<>>

\* the action tag a row is logged with
PhaseOf(row) ==
  IF row.notification_type = "sla_warning" THEN "sla_alert"
  ELSE "overdue_notification_sent"

C31_UnreachableStoreListsNothing ==
  answer.route = "get_unavailable"
  => /\ answer.status = 200
     /\ answer.notifications = <<>>
     /\ answer.total = 0

\* POST /auto-sync answers in this step
AutoSyncAnswers ==
  /\ answer' # answer
  /\ answer'.route = "auto_sync"
  /\ answer'.status = 200

ScenarioStart == BootTime

\* sla_hours = 1, sla_minutes = 0 (minutes)
ScenarioBudget == 4 * WarningWindow

\* the instants of the ticks, in minutes after 16:00
ScenarioTicks == <<46, 50, 65>>

TickTime(k) == Min(ScenarioStart + ScenarioTicks[k])

\* the unit was started at its scheduled start, or has not been started
ScenarioUnits ==
  {Unit(Min(ScenarioStart), TRUE, "in_progress", TRUE, Min(ScenarioStart),
        Min(ScenarioBudget)),
   Unit(Min(ScenarioStart), TRUE, "pending", TRUE, NULL, Min(ScenarioBudget))}

InitScenario ==
  /\ now = TickTime(1)
  /\ subtasks \in {st \in [UnitIds -> ScenarioUnits \cup {Resolved}] :
                     /\ st[UnitOrder[1]] \in ScenarioUnits
                     /\ \A u \in UnitIds \ {UnitOrder[1]} : st[u] = Resolved}
  /\ activity_log = <<>>
  /\ alerts = <<>>
  /\ read_status = {}
  /\ archived_status = {}
  /\ inflight = [p \in Passes |-> <<>>]
  /\ syncInterval = NULL
  /\ timers = {}
  /\ ran = {}
  /\ outbox = {}
  /\ faulted = {}
  /\ event = NoEvent
  /\ shown = Stored
  /\ task = SeedTask
  /\ recipientList = NoRecipients
  /\ response = NoResponse
  /\ readResponse = NoResponse
  /\ answer = NoAnswer

\* the clock reaches the instant of the next tick
NextTick ==
  /\ InFlight = {}
  /\ \E k \in 1..(Len(ScenarioTicks) - 1) :
       /\ now = TickTime(k)
       /\ now' = TickTime(k + 1)
  /\ ran' = {}
  /\ answer' = NoAnswer
  /\ UNCHANGED <<subtasks, activity_log, alerts, read_status, archived_status,
                 inflight, syncInterval, outbox, faulted,
                 event, shown,
                 task, recipientList, response, timers, readResponse>>

NextScenario ==
  \/ NextTick
  \/ \E p \in Passes : PassQuery(p)
  \/ \E p \in Passes : PassInsert(p)
  \/ EnableAutoSync
  \/ DisableAutoSync
  \/ checkSLAAlerts

SpecScenario == InitScenario /\ [][NextScenario]_vars

\* an evaluator has run at the current instant and none is under way
Ticked == Quiescent /\ ran \cap {"sql", "service"} # {}

\* the events of a phase the log holds for the unit of the scenario, as
\* (instant, minutes of the detail text)
PhaseEvents(action) ==
  {<<activity_log[i].timestamp, activity_log[i].n>> :
     i \in Events(UnitOrder[1], action)}

\* ------------------------------------------------------------------------
\* C33: for a unit scheduled at 16:00 with a budget of 60 minutes, after the
\* tick at 16:46 the log holds one Warning event of the unit, saying 14 min
\* remaining, and no Overdue event; the tick at 16:50 adds nothing; after
\* the tick at 17:05 the log holds exactly one Overdue event, saying overdue
\* by 5 min, and the status of the unit is overdue.
\* ------------------------------------------------------------------------
C33_EndToEndExample ==
  Ticked =>
    /\ PhaseEvents("sla_alert") = {<<TickTime(1), 14>>}
    /\ now \in {TickTime(1), TickTime(2)}
         => PhaseEvents("overdue_notification_sent") = {}
    /\ now = TickTime(3)
         => /\ PhaseEvents("overdue_notification_sent") = {<<TickTime(3), 5>>}
            /\ subtasks[UnitOrder[1]].status = "overdue"

\* ------------------------------------------------------------------------
\* Evaluator ticks that keep occurring: the client polls GET /, whose
\* handler runs the SQL function, and the alert service is run again and
\* again; the clock goes on
\* ------------------------------------------------------------------------

\* one unit of interest, the other one resolved
InitTicking ==
  /\ Init
  /\ \A u \in UnitIds \ {UnitOrder[1]} : subtasks[u] = Resolved

NextTicking ==
  \/ Advance
  \/ PassQuery("get")
  \/ PassInsert("get")
  \/ checkSLAAlerts

SpecTicking ==
  /\ InitTicking
  /\ [][NextTicking]_vars
  /\ WF_vars(Advance)
  /\ WF_vars(PassQuery("get"))
  /\ WF_vars(PassInsert("get"))
  /\ WF_vars(checkSLAAlerts)

\* the unit is eligible and its deadline has passed
PastDeadline(u) == Eligible(subtasks[u]) /\ Deadline(subtasks[u]) < now

\* ------------------------------------------------------------------------
\* C34: while evaluator ticks keep occurring, an eligible unit that is
\* pending or in progress past its deadline eventually has an Overdue event
\* in the log and the lifecycle status overdue.
\* ------------------------------------------------------------------------
C34_EventuallyOverdue ==
  \A u \in UnitIds :
    PastDeadline(u) ~> /\ Events(u, "overdue_notification_sent") # {}
                       /\ subtasks[u].status = "overdue"

\* ------------------------------------------------------------------------
\* C35: whatever enable-auto-sync and disable-auto-sync requests have been
\* made, at most one interval timer is scheduled: the one whose handle the
\* module holds; after an enable exactly that one is scheduled, also when a
\* timer was running before, and after a disable none is.
\* ------------------------------------------------------------------------
C35_AtMostOneTimer ==
  /\ Cardinality(timers) <= 1
  /\ syncInterval # NULL => timers = {syncInterval}
  /\ syncInterval = NULL => timers = {}

\* a timer is scheduled and its callback has fetched rows
C35_Witness ==
  /\ timers # {}
  /\ syncInterval \in timers
  /\ inflight["timer"] # <<>>

\* ------------------------------------------------------------------------
\* The two classifications side by side
\* ------------------------------------------------------------------------

\* the (type, priority) pairs of the classification table
TablePairs == {classify(e) : e \in EventRecords}

\* C36: the type and the priority the listing returns for an event, each
\* computed by its own CASE expression, form one of the (type, priority)
\* pairs of the classification table
C36_ServerPairIsATablePair ==
  Listed => <<shown.type, shown.priority>> \in TablePairs

\* the read has not promoted the record: the live recomputation does not
\* find it expired
NotPromoted == ~isExpiredSLA(event)

\* C37: for an event the live recomputation does not promote, the type the
\* client derives in transformDbNotifications is the type the listing
\* computed for it, whatever its action tag and detail text
C37_ClientTypeIsServerType ==
  (Transformed /\ NotPromoted) => shown.client_type = shown.type

\* ------------------------------------------------------------------------
\* The counts of a listing
\* ------------------------------------------------------------------------

\* GET / answers from the store in this step
ListingAnswers ==
  /\ answer' # answer
  /\ answer'.route = "get"
  /\ answer'.status = 200

\* C38: the total and the unread_count of a listing are the numbers of the
\* notifications, and of the unread ones, the listing returns over all its
\* pages, and has_more is true only when the next page holds at least one
\* notification, also when the log holds several events of one group
C38_CountsMatchTheListing ==
  [][ListingAnswers =>
        \E ids \in Listings :
          /\ answer'.total = Cardinality(ids)
          /\ answer'.unread_count = Cardinality(ids \ read_status)
          /\ answer'.has_more
               => answer'.offset + answer'.limit < Cardinality(ids)]_vars

\* ------------------------------------------------------------------------
\* PUT /:id/read on one stored record that has been read or not, archived
\* or not
\* ------------------------------------------------------------------------

InitMarking ==
  /\ now = Min(BootTime)
  /\ subtasks \in {[u \in UnitIds |-> Resolved]}
  /\ activity_log \in {<<r>> : r \in LiveRecords}
  /\ alerts = <<>>
  /\ read_status \in SUBSET {1}
  /\ archived_status \in SUBSET {1}
  /\ inflight = [p \in Passes |-> <<>>]
  /\ syncInterval = NULL
  /\ timers = {}
  /\ ran = {}
  /\ outbox = {}
  /\ faulted = {}
  /\ event = NoEvent
  /\ shown = Stored
  /\ task = SeedTask
  /\ recipientList = NoRecipients
  /\ response = NoResponse
  /\ readResponse = NoResponse
  /\ answer = NoAnswer

NextMarking ==
  \/ \E id \in 1..MaxLog : MarkRead(id)
  \/ \E id \in 1..MaxLog : MarkReadMissing(id)
  \/ \E id \in 1..MaxLog : Archive(id)

SpecMarking == InitMarking /\ [][NextMarking]_vars

====
